---- MODULE Spec2Model ----
(***************************************************************************)
(* microRobotFramework: the sensor-frame decoders of the four MRF driver    *)
(* variants (microRobotFramework.py, _02, _03, _04) over a serial           *)
(* transport, and variant 03's sensor / motor worker threads sharing one    *)
(* transport under serial_mutex.                                            *)
(*                                                                          *)
(* The transport is pyserial's Serial: rx is the bytes the device has       *)
(* delivered and the driver has not read yet.  read(n) returns the first    *)
(* n bytes of rx, or every byte of rx when fewer than n arrived before the  *)
(* 100 ms timeout.  Every byte carries a tag k that the driver never reads: *)
(* 0 for the header byte of a frame the device sent, j > 0 for the j-th     *)
(* byte after that header, -1 for a noise byte.                             *)
(***************************************************************************)
EXTENDS Integers, Sequences, FiniteSets, TLC

VARIABLES
    variant,        \* which MRF class is running: 1, 2, 3 or 4
    connected,      \* MRF.connected
    is_open,        \* serial_connection.is_open
    fields,         \* <<accel_x, accel_y, accel_z, gyro_x, gyro_y, gyro_z, encoder1..4>>
    rx,             \* transport input: delivered, unread bytes (tagged)
    pending,        \* the rest of a frame the device has started to send
    framesSent,     \* frames the device has started
    pc,             \* position of the single-threaded caller inside receive_sensor_data
    ret,            \* return value of the last receive_sensor_data call
    buf,            \* data_buffer / buffer / data of the last call (tagged bytes)
    hdr,            \* tag of the byte the header scan of the last call matched, -2 if none
    calls,          \* what earlier calls returned: "none", "ok" (all True) or "failed"
    how,            \* how the last call ended: "none", "closed", "timeout", "error", "read"
    expect,         \* the frame that led rx when the current call started, if one did
    th,             \* variant 03 threads: position of each worker flow
    serial_mutex,   \* variant 03: holder of serial_mutex, "free" when unlocked
    running,        \* variant 03: the running Event
    tbuf,           \* variant 03 sensor thread: data_buffer of the running call
    tidx,           \* variant 03 sensor thread: next field _parse_sensor_data assigns
    obs,            \* variant 03 display flow: what the accessor calls of this pass returned
    decoded,        \* variant 03: the ten-field samples of the frames decoded so far
    tx,             \* last packet written to the transport
    cmd,            \* the (speed, angle) the caller passes to send_motor_command
    sret,           \* what the last send_motor_command returned: "none", "True", "False"
    wrote,          \* whether the last send_motor_command called serial_connection.write
    position,       \* MRF_Odometry.position: [x, y, theta, timestamp]
    velocity,       \* MRF_Odometry.velocity: [linear, angular, left_wheel, right_wheel]
    prev_encoder_left,   \* MRF_Odometry.prev_encoder_left
    prev_encoder_right,  \* MRF_Odometry.prev_encoder_right
    prev_timestamp, \* MRF_Odometry.prev_timestamp
    path_history,   \* MRF_Odometry.path_history
    total_distance, \* MRF_Odometry.total_distance
    total_rotation, \* MRF_Odometry.total_rotation
    now,            \* what time.time() returns
    earg,           \* the readings passed to the last update_odometry call
    parg,           \* the pose the caller passes to set_position
    oret,           \* what the last update_odometry returned: "none", "True", "False"
    ncalls,         \* update_odometry calls made so far: 0, 1 or 2 for more
    base,           \* readings of the last update_odometry call that returned True
    recorded        \* every pose _record_position copied since the last reset

codecVars  == <<variant, connected, is_open, fields, rx, pending, framesSent,
                pc, ret, buf, hdr, calls, how, expect>>
threadVars == <<th, serial_mutex, running, tbuf, tidx, obs, decoded, tx>>
motorVars  == <<cmd, sret, wrote>>
odoVars    == <<position, velocity, prev_encoder_left, prev_encoder_right,
                prev_timestamp, path_history, total_distance, total_rotation,
                now, earg, parg, oret, ncalls, base, recorded>>
vars       == <<codecVars, threadVars, motorVars, odoVars>>

\* what the receive flow, and what the worker threads, leave alone
nonCodec  == <<threadVars, motorVars, odoVars>>
nonThread == <<motorVars, odoVars>>

----------------------------------------------------------------------------
(* Bounds of the model *)

\* frames the device starts in one behaviour
MaxFrames == 2
\* noise bytes the device queues ahead of the driver
MaxNoise == 1

----------------------------------------------------------------------------
(* Program constants *)

HEADER_BYTE == 245
\* payload bytes read after the header by variants 01 and 02
PAYLOAD_LEN == 20
\* bytes read in one call by variants 03 and 04
FRAME_LEN == 23

Variants == {1, 2, 3, 4}
Scanning == {1, 2}

NFIELDS == 10

\* bytes a call must read in its block read
ReadLen(v) == IF v \in Scanning THEN PAYLOAD_LEN ELSE FRAME_LEN

----------------------------------------------------------------------------
(* Bytes and fixed-width integers *)

Min(a, b) == IF a < b THEN a ELSE b

Bytes(s) == [i \in 1..Len(s) |-> s[i].b]
Tags(s)  == [i \in 1..Len(s) |-> s[i].k]

\* struct 'h' after 'H': the two's-complement reading of a 16-bit word
Signed16(u) == IF u > 32767 THEN u - 65536 ELSE u

\* struct '>H': big-endian
BE16(d, i) == d[i] * 256 + d[i + 1]
\* struct '<H': little-endian
LE16(d, i) == d[i] + d[i + 1] * 256

RECURSIVE Xor(_, _)
Xor(a, b) == IF a = 0 THEN b
             ELSE IF b = 0 THEN a
             ELSE ((a + b) % 2) + 2 * Xor(a \div 2, b \div 2)

RECURSIVE XorAll(_)
XorAll(s) == IF s = <<>> THEN 0 ELSE Xor(Head(s), XorAll(Tail(s)))

RECURSIVE SumAll(_)
SumAll(s) == IF s = <<>> THEN 0 ELSE (Head(s) + SumAll(Tail(s))) % 256

----------------------------------------------------------------------------
(* _parse_sensor_data of each variant: the fields after parsing data d,     *)
(* given the fields f before                                                *)

\* variant 01: struct.unpack(">hhhhhhhhhh", data_buffer); struct.error is caught
parse_sensor_data_01(f, d) ==
    IF Len(d) # 20 THEN f
    ELSE [i \in 1..NFIELDS |-> Signed16(BE16(d, 2 * i - 1))]

\* variant 02: struct.unpack('<6h4H', data_buffer); struct.error is caught
parse_sensor_data_02(f, d) ==
    IF Len(d) # 20 THEN f
    ELSE [i \in 1..NFIELDS |->
            IF i <= 6 THEN Signed16(LE16(d, 2 * i - 1)) ELSE LE16(d, 2 * i - 1)]

\* variant 03: field i of _parse_sensor_data(data_buffer[2:]), d the 23 bytes read
FieldAt03(d, i) ==
    IF i <= 6 THEN Signed16(BE16(d, 2 * i + 1)) ELSE BE16(d, 2 * i + 1)

parse_sensor_data_03(f, d) == [i \in 1..NFIELDS |-> FieldAt03(d, i)]

\* a decoding that takes all ten words as signed
parse_sensor_data_04_signed(f, d) ==
    [i \in 1..NFIELDS |->
        LET u == BE16(d, 2 * i + 1)
        IN  IF u > 32767 THEN u - 65536 ELSE u]

\* variant 04: (buffer[2i] << 8) | buffer[2i+1], then -= 65536 for the IMU fields
parse_sensor_data_04(f, d) ==
    [i \in 1..NFIELDS |->
        LET u == BE16(d, 2 * i + 1)
        IN  IF i <= 6 /\ u > 32767 THEN u - 65536 ELSE u]

----------------------------------------------------------------------------
(* The device: what it puts on the wire *)

Noise == {0, 55}

PayloadA == [i \in 1..20 |-> i]
PayloadB == [i \in 1..20 |-> 255]
\* 0x80 0x01 words, and a byte equal to the header inside the payload
PayloadD == [i \in 1..20 |-> IF i = 16 THEN 245 ELSE IF i % 2 = 1 THEN 128 ELSE 1]
Payloads == {PayloadA, PayloadB, PayloadD}

\* the bytes of one sensor frame of variant v; good: the checksum byte is right
FrameBytes(v, p, good) ==
    IF v \in Scanning THEN <<HEADER_BYTE>> \o p
    ELSE LET body == <<HEADER_BYTE, 21>> \o p
             ck   == XorAll(body)
         IN  body \o <<IF good THEN ck ELSE (ck + 1) % 256>>

Tagged(s) == [i \in 1..Len(s) |-> [b |-> s[i], k |-> i - 1]]

\* where the device may pause inside a frame: after this many bytes
Cuts(v) == {13, Len(FrameBytes(v, PayloadA, TRUE))}

\* the frames the device may send to variant v: <<payload, checksum is right>>
Frames(v) ==
    {<<p, TRUE>> : p \in Payloads}
        \cup (IF v \in Scanning THEN {} ELSE {<<PayloadA, FALSE>>})

----------------------------------------------------------------------------
(* The stream a call finds *)

NoFrame == [noise |-> 0, p |-> <<>>]

\* the frame of a stream s that is noise bytes (none equal to the header), a
\* frame's header and its 20 payload bytes, then anything: how many noise
\* bytes lead it and its payload; NoFrame for a stream of another shape
RECURSIVE LeadingFrame(_)
LeadingFrame(s) ==
    IF Len(s) < PAYLOAD_LEN + 1 THEN NoFrame
    ELSE IF s[1].k = -1 /\ s[1].b # HEADER_BYTE
         THEN LET r == LeadingFrame(Tail(s))
              IN  IF r = NoFrame THEN NoFrame
                  ELSE [noise |-> r.noise + 1, p |-> r.p]
         ELSE IF Tags(SubSeq(s, 1, PAYLOAD_LEN + 1)) = [i \in 1..(PAYLOAD_LEN + 1) |-> i - 1]
              THEN [noise |-> 0, p |-> Bytes(SubSeq(s, 2, PAYLOAD_LEN + 1))]
              ELSE NoFrame

----------------------------------------------------------------------------
(* The driver, single-threaded caller (all variants) *)

ZeroFields == [i \in 1..NFIELDS |-> 0]

\* a check that never notices the closed port
IsConnectedAlways == TRUE

\* MRF.is_connected
IsConnected == connected /\ is_open

\* one behaviour runs one of the four variants; _open_serial succeeds or fails
InitCodec ==
    /\ variant \in Variants
    /\ connected \in BOOLEAN
    /\ is_open = connected
    /\ fields = ZeroFields
    /\ rx = <<>>
    /\ pending = <<>>
    /\ framesSent = 0
    /\ pc = "idle"
    /\ ret = FALSE
    /\ buf = <<>>
    /\ hdr = -2
    /\ calls = "none"
    /\ how = "none"
    /\ expect = NoFrame

\* the result of the earlier calls, the one that just returned included
History == IF pc # "done" THEN calls
           ELSE IF ret /\ calls # "failed" THEN "ok" ELSE "failed"

\* receive_sensor_data, entry: the is_connected() check
ReceiveCall ==
    /\ pc \in {"idle", "done"}
    /\ calls' = History
    /\ buf' = <<>>
    /\ hdr' = -2
    /\ expect' = LeadingFrame(rx)
    /\ IF ~IsConnected
       THEN ret' = FALSE /\ pc' = "done" /\ how' = "closed"
       ELSE ret' = ret /\ pc' = (IF variant \in Scanning THEN "scan" ELSE "read")
            /\ how' = "none"
    /\ UNCHANGED <<variant, connected, is_open, fields, rx, pending, framesSent>>

\* a scan that takes the first byte it reads for the header
HeaderFoundFirst(b) == b = b

\* the byte header_byte[0] ends the header scan
HeaderFound(b) == b = HEADER_BYTE

\* variants 01, 02: one turn of the header scan, header_byte = read(1)
ScanStep ==
    /\ pc = "scan"
    /\ IF rx = <<>>
       THEN \* timeout: len(header_byte) == 0
            /\ ret' = FALSE
            /\ pc' = "done"
            /\ how' = "timeout"
            /\ UNCHANGED <<rx, hdr>>
       ELSE /\ rx' = Tail(rx)
            /\ IF HeaderFound(Head(rx).b)
               THEN hdr' = Head(rx).k /\ pc' = "read"
               ELSE hdr' = hdr /\ pc' = "scan"
            /\ ret' = ret
            /\ how' = how
    /\ UNCHANGED <<variant, connected, is_open, fields, pending, framesSent,
                   buf, calls, expect>>

\* what receive_sensor_data returns once its block read gave data d
ReceiveResult(v, d) ==
    IF v = 1 THEN TRUE ELSE Len(d) = ReadLen(v)

\* the fields receive_sensor_data leaves once its block read gave data d
ReceiveFields(v, f, d) ==
    CASE v = 1 -> parse_sensor_data_01(f, d)
      [] v = 2 -> IF Len(d) # 20 THEN f ELSE parse_sensor_data_02(f, d)
      [] v = 3 -> IF Len(d) # 23 THEN f ELSE parse_sensor_data_03(f, d)
      [] v = 4 -> IF Len(d) # 23 THEN f ELSE parse_sensor_data_04(f, d)

\* the block read, read(20) or read(23), the length check and the parse
ReadStep ==
    /\ pc = "read"
    /\ LET n == Min(ReadLen(variant), Len(rx))
           d == SubSeq(rx, 1, n)
       IN  /\ buf' = d
           /\ rx' = SubSeq(rx, n + 1, Len(rx))
           /\ ret' = ReceiveResult(variant, Bytes(d))
           /\ fields' = ReceiveFields(variant, fields, Bytes(d))
    /\ pc' = "done"
    /\ how' = "read"
    /\ UNCHANGED <<variant, connected, is_open, pending, framesSent, hdr,
                   calls, expect>>

\* a read raises serial.SerialException or OSError: caught, return False
ReadError ==
    /\ pc \in {"scan", "read"}
    /\ ret' = FALSE
    /\ how' = "error"
    /\ pc' = "done"
    /\ UNCHANGED <<variant, connected, is_open, fields, rx, pending, framesSent,
                   buf, hdr, calls, expect>>

\* what close_connection leaves alone besides the receive flow's state
nonClose == <<th, serial_mutex, tbuf, tidx, obs, decoded, tx, motorVars, odoVars>>

\* MRF.close_connection, between two calls; variant 03 calls stop_threads()
\* first, which clears the running flag
CloseConnection ==
    /\ pc \in {"idle", "done"}
    /\ connected
    /\ running' = (IF variant = 3 THEN FALSE ELSE running)
    /\ is_open' = FALSE
    /\ connected' = FALSE
    /\ UNCHANGED <<variant, fields, rx, pending, framesSent, pc, ret, buf, hdr,
                   calls, how, expect>>

----------------------------------------------------------------------------
(* The device *)

\* a noise byte on the line
DeviceNoise ==
    /\ pending = <<>>
    /\ Len(rx) < MaxNoise
    /\ \E g \in Noise : rx' = Append(rx, [b |-> g, k |-> -1])
    /\ UNCHANGED <<variant, connected, is_open, fields, pending, framesSent,
                   pc, ret, buf, hdr, calls, how, expect>>

\* the device starts a frame and sends its first c bytes
DeviceFrame ==
    /\ pending = <<>>
    /\ framesSent < MaxFrames
    /\ \E fr \in Frames(variant), c \in Cuts(variant) :
          LET fb == Tagged(FrameBytes(variant, fr[1], fr[2]))
          IN  /\ rx' = rx \o SubSeq(fb, 1, c)
              /\ pending' = SubSeq(fb, c + 1, Len(fb))
    /\ framesSent' = framesSent + 1
    /\ UNCHANGED <<variant, connected, is_open, fields, pc, ret, buf, hdr,
                   calls, how, expect>>

\* the rest of the frame arrives
DeviceRest ==
    /\ pending # <<>>
    /\ rx' = rx \o pending
    /\ pending' = <<>>
    /\ UNCHANGED <<variant, connected, is_open, fields, framesSent, pc, ret,
                   buf, hdr, calls, how, expect>>

\* the device restarts: the rest of the frame is never sent
DeviceRestart ==
    /\ pending # <<>>
    /\ pending' = <<>>
    /\ UNCHANGED <<variant, connected, is_open, fields, rx, framesSent, pc, ret,
                   buf, hdr, calls, how, expect>>

Device == DeviceNoise \/ DeviceFrame \/ DeviceRest \/ DeviceRestart

----------------------------------------------------------------------------
(* Variant 03 threads, idle in the single-threaded specification *)

InitThreadsIdle ==
    /\ th = [sensor |-> "off", motor |-> "off", main |-> "off"]
    /\ serial_mutex = "free"
    /\ running = TRUE
    /\ tbuf = <<>>
    /\ tidx = 1
    /\ obs = <<>>
    /\ decoded = {}
    /\ tx = <<>>

----------------------------------------------------------------------------
(* MRF_Odometry with its default parameters wheel_base = 0.2,               *)
(* wheel_radius = 0.05, encoder_resolution = 1024.                          *)
(*                                                                          *)
(* Units.  distance_per_pulse = 2 pi 0.05 / 1024, so one encoder pulse of   *)
(* difference between the wheels turns the robot by                         *)
(* distance_per_pulse / wheel_base = pi / 2048: angles are integers in      *)
(* units of pi / 2048.  Lengths are integers in units of half a             *)
(* distance_per_pulse, so that distance_center = (left + right) / 2 stays   *)
(* an integer.  Times are integers in units of half a millisecond.          *)
(* Velocities are fractions <<numerator, denominator>> in lowest terms.     *)

\* pi, in units of pi / 2048
PI == 2048

\* 0.001 s, in half milliseconds
MIN_DT == 2

ENCODER_HALF == 32768
ENCODER_WRAP == 65536

\* a magnitude that keeps the sign
AbsSigned(n) == n

Abs(n) == IF n < 0 THEN -n ELSE n

RECURSIVE GCD(_, _)
GCD(a, b) == IF b = 0 THEN a ELSE GCD(b, a % b)

\* the quotient n / d, d > 0, in lowest terms
Frac(n, d) == LET g == GCD(Abs(n), d) IN <<n \div g, d \div g>>

\* Position() and Velocity(): the dataclass defaults
ZeroPosition == [x |-> 0, y |-> 0, theta |-> 0, timestamp |-> 0]
\* a velocity whose wheel components are not cleared
VelocityWheelsLeft == [linear |-> <<0, 1>>, angular |-> <<0, 1>>,
                       left_wheel |-> <<1, 1>>, right_wheel |-> <<1, 1>>]

ZeroVelocity == [linear |-> <<0, 1>>, angular |-> <<0, 1>>,
                 left_wheel |-> <<0, 1>>, right_wheel |-> <<0, 1>>]

\* the correction of a delta that is kept as it is
WrapDeltaNone(delta) == delta

\* update_odometry: the 16-bit overflow correction of one encoder delta
WrapDelta(delta) ==
    IF Abs(delta) > ENCODER_HALF
    THEN IF delta > 0 THEN delta - ENCODER_WRAP ELSE delta + ENCODER_WRAP
    ELSE delta

\* _normalize_angle: while angle > math.pi: angle -= 2.0 * math.pi
RECURSIVE NormalizeDown(_)
NormalizeDown(angle) ==
    IF angle > PI THEN NormalizeDown(angle - 2 * PI) ELSE angle

\* _normalize_angle: while angle < -math.pi: angle += 2.0 * math.pi
RECURSIVE NormalizeUp(_)
NormalizeUp(angle) ==
    IF angle < -PI THEN NormalizeUp(angle + 2 * PI) ELSE angle

\* a single correction step instead of the loops
normalize_angle_once(angle) ==
    IF angle > PI THEN angle - 2 * PI
    ELSE IF angle < -PI THEN angle + 2 * PI ELSE angle

\* MRF_Odometry._normalize_angle
normalize_angle(angle) == NormalizeUp(NormalizeDown(angle))

\* math.cos and math.sin at the multiples of pi / 2
\* a cosine that is the sine
CosQAsSine(theta) ==
    CASE theta % (2 * PI) = PI \div 2 -> 1
      [] theta % (2 * PI) = 3 * (PI \div 2) -> -1
      [] OTHER -> 0

CosQ(theta) ==
    CASE theta % (2 * PI) = 0 -> 1
      [] theta % (2 * PI) = PI -> -1
      [] OTHER -> 0
SinQ(theta) ==
    CASE theta % (2 * PI) = PI \div 2 -> 1
      [] theta % (2 * PI) = 3 * (PI \div 2) -> -1
      [] OTHER -> 0

\* path history capacity (1000 in MRF_Odometry.__init__), scaled down
max_path_length == 2

\* a history that is never trimmed
record_position_unbounded(history, pos) == Append(history, pos)

\* a history that holds the pose object itself instead of copies: every entry
\* shows the pose of the moment
record_position_live(history, pos) ==
    [i \in 1..Min(Len(history) + 1, max_path_length) |-> pos]

\* a recording that enters the pose twice
record_position_twice(history, pos) ==
    LET h == Append(Append(history, pos), pos)
    IN  IF Len(h) > max_path_length
        THEN SubSeq(h, Len(h) - max_path_length + 1, Len(h))
        ELSE h

\* _record_position: append a copy of the pose, drop the oldest beyond capacity
record_position(history, pos) ==
    LET h == Append(history, pos)
    IN  IF Len(h) > max_path_length THEN Tail(h) ELSE h

\* MRF_Odometry.__init__, at time 1 of the clock (time.time() is never the
\* 0.0 of Position())
InitOdometry ==
    /\ position = ZeroPosition
    /\ velocity = ZeroVelocity
    /\ prev_encoder_left = 0
    /\ prev_encoder_right = 0
    /\ now = 1
    /\ prev_timestamp = 1
    /\ path_history = <<>>
    /\ total_distance = 0
    /\ total_rotation = 0
    /\ oret = "none"
    /\ ncalls = 0
    /\ base = [left |-> 0, right |-> 0]
    /\ recorded = <<>>

\* no odometry call is made
InitOdoIdle ==
    /\ InitOdometry
    /\ earg = [left |-> 0, right |-> 0]
    /\ parg = [x |-> 0, y |-> 0, theta |-> 0]

\* no send_motor_command call is made
InitMotorIdle ==
    /\ cmd = [speed |-> 0, angle |-> 0]
    /\ sret = "none"
    /\ wrote = FALSE

----------------------------------------------------------------------------
(* Single-threaded specification: one caller polling receive_sensor_data *)

Init == InitCodec /\ InitThreadsIdle /\ InitMotorIdle /\ InitOdoIdle

Next ==
    \/ (ReceiveCall /\ UNCHANGED nonCodec)
    \/ (ScanStep /\ UNCHANGED nonCodec)
    \/ (ReadStep /\ UNCHANGED nonCodec)
    \/ (ReadError /\ UNCHANGED nonCodec)
    \/ (CloseConnection /\ UNCHANGED nonClose)
    \/ (Device /\ UNCHANGED nonCodec)

Spec == Init /\ [][Next]_vars

\* the steps of the driver's own flow
Driver ==
    \/ (ReceiveCall /\ UNCHANGED nonCodec)
    \/ (ScanStep /\ UNCHANGED nonCodec)
    \/ (ReadStep /\ UNCHANGED nonCodec)
    \/ (ReadError /\ UNCHANGED nonCodec)

\* the header-scanning variants, 01 and 02, alone
InitScan == Init /\ variant \in Scanning

SpecScan == InitScan /\ [][Next]_vars

\* the caller's flow is scheduled: a read that can return returns
FairSpec ==
    /\ SpecScan
    /\ WF_vars(ScanStep /\ UNCHANGED nonCodec)
    /\ WF_vars(ReadStep /\ UNCHANGED nonCodec)

----------------------------------------------------------------------------
(* Variant 03: the motor packet *)

MOTOR_HEADER == 170

\* start_motor_thread's default command
DEFAULT_SPEED == 90
DEFAULT_ANGLE == 100

----------------------------------------------------------------------------
(* send_motor_command of variants 02, 03 and 04 (variant 01 has none)       *)

MotorVariants == {2, 3, 4}

\* variants 02 and 04: header byte of the motor packet, 0xFA
MOTOR_HEADER_BYTE == 250

\* no clamping: the argument is encoded as it was passed
ClampNone(lo, hi, x) == x

\* max(lo, min(hi, x))
Clamp(lo, hi, x) == IF x < lo THEN lo ELSE IF x > hi THEN hi ELSE x

\* the speed the variant encodes for the argument speed
ClampSpeed(v, speed) ==
    CASE v = 2 -> Clamp(-255, 255, speed)
      [] v = 3 -> Clamp(0, 255, speed)
      [] v = 4 -> Clamp(-100, 100, speed)

\* the angle the variant encodes for the argument angle
ClampAngle(v, angle) ==
    CASE v = 2 -> Clamp(-180, 180, angle)
      [] v = 3 -> Clamp(-127, 127, angle)
      [] v = 4 -> Clamp(-100, 100, angle)

\* struct format 'h', little-endian: two's complement, low byte first
Pack16LE(x) == <<x % 256, (x % 65536) \div 256>>

\* variant 02: struct.pack('<Bhh', MOTOR_HEADER_BYTE, speed, angle)
MotorPacket02(speed, angle) ==
    <<MOTOR_HEADER_BYTE>> \o Pack16LE(ClampSpeed(2, speed))
                         \o Pack16LE(ClampAngle(2, angle))

\* variant 03 with the angle byte left out of the checksum
MotorPacket03AngleUnsummed(speed, angle) ==
    LET sp == Clamp(0, 255, speed)
        an == Clamp(-127, 127, angle)
    IN  <<MOTOR_HEADER, 3, sp % 256, an % 256, Xor(Xor(MOTOR_HEADER, 3), sp % 256)>>

\* the five bytes variant 03's send_motor_command writes for (speed, angle)
MotorPacket03(speed, angle) ==
    LET sp == Clamp(0, 255, speed)
        an == Clamp(-127, 127, angle)
        p2 == sp % 256
        p3 == an % 256
    IN  <<MOTOR_HEADER, 3, p2, p3, Xor(Xor(Xor(MOTOR_HEADER, 3), p2), p3)>>

\* variant 04: int(speed * (1.0 - mag / 100.0)) for mag = |angle| in 0..100.
\* int() truncates toward zero.  The product is a binary floating-point
\* number: where the exact product is a non-zero integer and the factor
\* 1.0 - mag / 100.0 is not exactly 1.0, the rounded product can fall just
\* short of that integer and int() then gives the integer one nearer zero.
InnerSpeeds(speed, mag) ==
    LET num == speed * (100 - mag)
        sg  == IF num > 0 THEN 1 ELSE IF num < 0 THEN -1 ELSE 0
        q   == sg * ((sg * num) \div 100)
    IN  {q} \cup (IF num % 100 = 0 /\ q # 0 /\ mag # 0 THEN {q - sg} ELSE {})

\* a mixing that holds the right wheel at speed when turning right
calculate_differential_speeds_swapped(speed, angle) ==
    IF angle >= 0
    THEN {<<r, speed>> : r \in InnerSpeeds(speed, angle)}
    ELSE {<<speed, l>> : l \in InnerSpeeds(speed, -angle)}

\* variant 04: the <<left_speed, right_speed>> pairs _calculate_differential_speeds
\* can return for a clamped (speed, angle)
calculate_differential_speeds(speed, angle) ==
    IF angle >= 0
    THEN {<<speed, r>> : r \in InnerSpeeds(speed, angle)}
    ELSE {<<l, speed>> : l \in InnerSpeeds(speed, -angle)}

\* variant 04: struct.pack('<Bhh', 0xFA, left_speed, right_speed)
MotorPackets04(speed, angle) ==
    {<<MOTOR_HEADER_BYTE>> \o Pack16LE(w[1]) \o Pack16LE(w[2]) :
        w \in calculate_differential_speeds(ClampSpeed(4, speed), ClampAngle(4, angle))}

\* the packets send_motor_command of variant v can write for (speed, angle)
MotorPackets(v, speed, angle) ==
    CASE v = 2 -> {MotorPacket02(speed, angle)}
      [] v = 3 -> {MotorPacket03(speed, angle)}
      [] v = 4 -> MotorPackets04(speed, angle)

\* send_motor_command(c.speed, c.angle) by the single-threaded caller,
\* between two receive_sensor_data calls.  The write either takes the whole
\* packet or raises SerialException / OSError.
SendMotor(c) ==
    /\ variant \in MotorVariants
    /\ pc \in {"idle", "done"}
    /\ cmd' = c
    /\ IF ~IsConnected
       THEN /\ sret' = "False"
            /\ wrote' = FALSE
            /\ tx' = tx
       ELSE /\ wrote' = TRUE
            /\ \E ok \in BOOLEAN :
                  IF ok
                  THEN /\ tx' \in MotorPackets(variant, c.speed, c.angle)
                       /\ sret' = "True"
                  ELSE /\ tx' = tx
                       /\ sret' = "False"
    /\ UNCHANGED <<codecVars, th, serial_mutex, running, tbuf, tidx, obs,
                   decoded, odoVars>>

\* send_motor_command(cmd.speed, cmd.angle)
SendMotorCommand == SendMotor(cmd)

\* variant 04, stop_motors(): send_motor_command(0, 0)
StopMotors ==
    /\ variant = 4
    /\ SendMotor([speed |-> 0, angle |-> 0])

----------------------------------------------------------------------------
(* One send_motor_command call per argument pair, on a connected instance   *)

\* largest |speed| and |angle| the caller passes
MaxSpeed == 257
MaxAngle == 182

Speeds == -MaxSpeed..MaxSpeed
Angles == -MaxAngle..MaxAngle
SpeedSamples == {-MaxSpeed, -101, -100, -37, 0, 1, 90, 100, 255, MaxSpeed}
AngleSamples == {-MaxAngle, -128, -100, -29, 0, 30, 100, 127, MaxAngle}

\* every speed with the sampled angles, every angle with the sampled speeds
Commands ==
    {[speed |-> s, angle |-> a] : s \in Speeds, a \in AngleSamples}
    \cup {[speed |-> s, angle |-> a] : s \in SpeedSamples, a \in Angles}

InitMotor ==
    /\ InitCodec
    /\ variant \in MotorVariants
    /\ connected
    /\ InitThreadsIdle
    /\ cmd \in Commands
    /\ sret = "none"
    /\ wrote = FALSE
    /\ InitOdoIdle

NextMotor ==
    \/ SendMotorCommand
    \/ StopMotors

SpecMotor == InitMotor /\ [][NextMotor]_vars

----------------------------------------------------------------------------
(* Variant 03: sensor_reader, motor_commander and the display flow of       *)
(* mrf_example_03 on one MRF instance                                       *)

codecOnly == <<variant, pending, framesSent, pc, ret, buf, hdr, calls, how, expect>>

\* a lock that does not exclude: entry without waiting for the holder
AcquireUnguarded(t) == serial_mutex' = t

\* with self.serial_mutex: entry, by flow t
Acquire(t) == serial_mutex = "free" /\ serial_mutex' = t

\* an exit that keeps the mutex
ReleaseNever == serial_mutex' = serial_mutex

\* with self.serial_mutex: exit
Release == serial_mutex' = "free"

InitThreads ==
    /\ variant = 3
    /\ connected = TRUE
    /\ is_open = TRUE
    /\ fields = ZeroFields
    /\ rx = <<>>
    /\ pending = <<>>
    /\ framesSent = 0
    /\ pc = "idle"
    /\ ret = FALSE
    /\ buf = <<>>
    /\ hdr = -2
    /\ calls = "none"
    /\ how = "none"
    /\ expect = NoFrame
    /\ th = [sensor |-> "loop", motor |-> "loop", main |-> "display"]
    /\ serial_mutex = "free"
    /\ running = TRUE
    /\ tbuf = <<>>
    /\ tidx = 1
    /\ obs = <<>>
    /\ decoded = {}
    /\ tx = <<>>
    /\ cmd = [speed |-> DEFAULT_SPEED, angle |-> DEFAULT_ANGLE]
    /\ sret = "none"
    /\ wrote = FALSE
    /\ InitOdoIdle

\* a loop that never looks at the flag
SensorLoopUnchecked ==
    /\ th.sensor = "loop"
    /\ th' = [th EXCEPT !.sensor = "call"]
    /\ UNCHANGED <<connected, is_open, fields, rx, serial_mutex, running, tbuf,
                   tidx, obs, decoded, tx>>

\* sensor_reader: while self.mrf.running.is_set()
SensorLoop ==
    /\ th.sensor = "loop"
    /\ th' = [th EXCEPT !.sensor = IF running THEN "call" ELSE "exit"]
    /\ UNCHANGED <<connected, is_open, fields, rx, serial_mutex, running, tbuf,
                   tidx, obs, decoded, tx>>

\* receive_sensor_data: if not self.is_connected(): return False
SensorCall ==
    /\ th.sensor = "call"
    /\ th' = [th EXCEPT !.sensor = IF IsConnected THEN "lock" ELSE "sleep"]
    /\ UNCHANGED <<connected, is_open, fields, rx, serial_mutex, running, tbuf,
                   tidx, obs, decoded, tx>>

\* receive_sensor_data: with self.serial_mutex
SensorLock ==
    /\ th.sensor = "lock"
    /\ Acquire("sensor")
    /\ th' = [th EXCEPT !.sensor = "read"]
    /\ UNCHANGED <<connected, is_open, fields, rx, running, tbuf, tidx, obs,
                   decoded, tx>>

\* receive_sensor_data: data_buffer = read(23) and the length check; a read on
\* a closed port raises SerialException, which is caught
SensorRead ==
    /\ th.sensor = "read"
    /\ IF ~is_open
       THEN /\ Release
            /\ th' = [th EXCEPT !.sensor = "sleep"]
            /\ UNCHANGED <<rx, tbuf, tidx, decoded>>
       ELSE LET n == Min(FRAME_LEN, Len(rx))
                d == Bytes(SubSeq(rx, 1, n))
            IN  /\ rx' = SubSeq(rx, n + 1, Len(rx))
                /\ IF n # FRAME_LEN
                   THEN /\ Release
                        /\ th' = [th EXCEPT !.sensor = "sleep"]
                        /\ UNCHANGED <<tbuf, tidx, decoded>>
                   ELSE /\ tbuf' = d
                        /\ tidx' = 1
                        /\ decoded' = decoded \cup {parse_sensor_data_03(fields, d)}
                        /\ th' = [th EXCEPT !.sensor = "parse"]
                        /\ UNCHANGED serial_mutex
    /\ UNCHANGED <<connected, is_open, fields, running, obs, tx>>

\* receive_sensor_data: the read raises SerialException or OSError
SensorReadError ==
    /\ th.sensor = "read"
    /\ Release
    /\ th' = [th EXCEPT !.sensor = "sleep"]
    /\ UNCHANGED <<connected, is_open, fields, rx, running, tbuf, tidx, obs,
                   decoded, tx>>

\* _parse_sensor_data: one of its ten assignments; after the last, return True
SensorParse ==
    /\ th.sensor = "parse"
    /\ fields' = [fields EXCEPT ![tidx] = FieldAt03(tbuf, tidx)]
    /\ IF tidx = NFIELDS
       THEN /\ Release
            /\ tidx' = 1
            /\ th' = [th EXCEPT !.sensor = "sleep"]
       ELSE /\ tidx' = tidx + 1
            /\ UNCHANGED <<serial_mutex, th>>
    /\ UNCHANGED <<connected, is_open, rx, running, tbuf, obs, decoded, tx>>

\* sensor_reader: time.sleep(read_interval)
SensorSleep ==
    /\ th.sensor = "sleep"
    /\ th' = [th EXCEPT !.sensor = "loop"]
    /\ UNCHANGED <<connected, is_open, fields, rx, serial_mutex, running, tbuf,
                   tidx, obs, decoded, tx>>

\* motor_commander: while self.mrf.running.is_set()
MotorLoop ==
    /\ th.motor = "loop"
    /\ th' = [th EXCEPT !.motor = IF running THEN "call" ELSE "exit"]
    /\ UNCHANGED <<connected, is_open, fields, rx, serial_mutex, running, tbuf,
                   tidx, obs, decoded, tx>>

\* send_motor_command: if not self.is_connected(): return False
MotorCall ==
    /\ th.motor = "call"
    /\ th' = [th EXCEPT !.motor = IF IsConnected THEN "lock" ELSE "sleep"]
    /\ UNCHANGED <<connected, is_open, fields, rx, serial_mutex, running, tbuf,
                   tidx, obs, decoded, tx>>

\* send_motor_command: with self.serial_mutex
MotorLock ==
    /\ th.motor = "lock"
    /\ Acquire("motor")
    /\ th' = [th EXCEPT !.motor = "write"]
    /\ UNCHANGED <<connected, is_open, fields, rx, running, tbuf, tidx, obs,
                   decoded, tx>>

\* send_motor_command: build the packet and write it; a write on a closed
\* port raises SerialException, which is caught
MotorWrite ==
    /\ th.motor = "write"
    /\ tx' = IF is_open THEN MotorPacket03(DEFAULT_SPEED, DEFAULT_ANGLE) ELSE tx
    /\ Release
    /\ th' = [th EXCEPT !.motor = "sleep"]
    /\ UNCHANGED <<connected, is_open, fields, rx, running, tbuf, tidx, obs,
                   decoded>>

\* motor_commander: time.sleep(command_interval)
MotorSleep ==
    /\ th.motor = "sleep"
    /\ th' = [th EXCEPT !.motor = "loop"]
    /\ UNCHANGED <<connected, is_open, fields, rx, serial_mutex, running, tbuf,
                   tidx, obs, decoded, tx>>

\* _display_sensor_data: the next accessor call of a pass over the sensor
\* fields, get_accel_x() first
MainGet ==
    /\ th.main = "display"
    /\ running
    /\ obs' = IF Len(obs) = NFIELDS THEN <<fields[1]>>
              ELSE Append(obs, fields[Len(obs) + 1])
    /\ UNCHANGED <<connected, is_open, fields, rx, serial_mutex, running, tbuf,
                   tidx, decoded, tx, th>>

\* _cleanup: stop_all_threads() calls mrf.stop_threads()
MainStop ==
    /\ th.main = "display"
    /\ running' = FALSE
    /\ th' = [th EXCEPT !.main = "join"]
    /\ UNCHANGED <<connected, is_open, fields, rx, serial_mutex, tbuf, tidx,
                   obs, decoded, tx>>

\* stop_all_threads: join(timeout=1.0) on each worker returns when the worker
\* has ended or when the second is over
MainJoin ==
    /\ th.main = "join"
    /\ th' = [th EXCEPT !.main = "close"]
    /\ UNCHANGED <<connected, is_open, fields, rx, serial_mutex, running, tbuf,
                   tidx, obs, decoded, tx>>

\* MRF.close_connection (variant 03)
MainClose ==
    /\ th.main = "close"
    /\ running' = FALSE
    /\ is_open' = FALSE
    /\ connected' = FALSE
    /\ th' = [th EXCEPT !.main = "end"]
    /\ UNCHANGED <<fields, rx, serial_mutex, tbuf, tidx, obs, decoded, tx>>

\* the device sends a whole frame
DeviceWhole ==
    /\ framesSent < MaxFrames
    /\ \E fr \in Frames(variant) :
          rx' = rx \o Tagged(FrameBytes(variant, fr[1], fr[2]))
    /\ framesSent' = framesSent + 1
    /\ UNCHANGED <<variant, connected, is_open, fields, pending, pc, ret, buf,
                   hdr, calls, how, expect>>

NextThreads ==
    \/ (SensorLoop /\ UNCHANGED <<codecOnly, nonThread>>)
    \/ (SensorCall /\ UNCHANGED <<codecOnly, nonThread>>)
    \/ (SensorLock /\ UNCHANGED <<codecOnly, nonThread>>)
    \/ (SensorRead /\ UNCHANGED <<codecOnly, nonThread>>)
    \/ (SensorReadError /\ UNCHANGED <<codecOnly, nonThread>>)
    \/ (SensorParse /\ UNCHANGED <<codecOnly, nonThread>>)
    \/ (SensorSleep /\ UNCHANGED <<codecOnly, nonThread>>)
    \/ (MotorLoop /\ UNCHANGED <<codecOnly, nonThread>>)
    \/ (MotorCall /\ UNCHANGED <<codecOnly, nonThread>>)
    \/ (MotorLock /\ UNCHANGED <<codecOnly, nonThread>>)
    \/ (MotorWrite /\ UNCHANGED <<codecOnly, nonThread>>)
    \/ (MotorSleep /\ UNCHANGED <<codecOnly, nonThread>>)
    \/ (MainStop /\ UNCHANGED <<codecOnly, nonThread>>)
    \/ (MainJoin /\ UNCHANGED <<codecOnly, nonThread>>)
    \/ (MainClose /\ UNCHANGED <<codecOnly, nonThread>>)
    \/ (DeviceWhole /\ UNCHANGED nonCodec)

SpecThreads == InitThreads /\ [][NextThreads]_vars

\* the steps of sensor_reader and of motor_commander
SensorFlow ==
    (SensorLoop \/ SensorCall \/ SensorLock \/ SensorRead \/ SensorParse
        \/ SensorSleep) /\ UNCHANGED <<codecOnly, nonThread>>
MotorFlow ==
    (MotorLoop \/ MotorCall \/ MotorLock \/ MotorWrite \/ MotorSleep)
        /\ UNCHANGED <<codecOnly, nonThread>>

\* both worker threads are scheduled: a read returns within its timeout, a
\* sleep ends, a free lock is taken
FairThreads == SpecThreads /\ WF_vars(SensorFlow) /\ WF_vars(MotorFlow)

\* a worker blocked in the acquire of serial_mutex gets it once it is free
\* often enough: after each call the other worker sleeps (50 ms, 100 ms) with
\* the mutex free
FairMutex ==
    /\ FairThreads
    /\ SF_vars(SensorLock /\ UNCHANGED <<codecOnly, nonThread>>)
    /\ SF_vars(MotorLock /\ UNCHANGED <<codecOnly, nonThread>>)

\* the sensor flow and the display flow alone
NextDisplay ==
    \/ (SensorLoop /\ UNCHANGED <<codecOnly, nonThread>>)
    \/ (SensorCall /\ UNCHANGED <<codecOnly, nonThread>>)
    \/ (SensorLock /\ UNCHANGED <<codecOnly, nonThread>>)
    \/ (SensorRead /\ UNCHANGED <<codecOnly, nonThread>>)
    \/ (SensorReadError /\ UNCHANGED <<codecOnly, nonThread>>)
    \/ (SensorParse /\ UNCHANGED <<codecOnly, nonThread>>)
    \/ (SensorSleep /\ UNCHANGED <<codecOnly, nonThread>>)
    \/ (MainGet /\ UNCHANGED <<codecOnly, nonThread>>)
    \/ (DeviceWhole /\ UNCHANGED nonCodec)

SpecDisplay == InitThreads /\ [][NextDisplay]_vars

----------------------------------------------------------------------------
(* A single-threaded session: receive_sensor_data and send_motor_command    *)
(* calls in any order, until and after close_connection                     *)

SessionCommands ==
    {[speed |-> DEFAULT_SPEED, angle |-> -29], [speed |-> MaxSpeed, angle |-> 0]}

InitSession ==
    /\ InitCodec
    /\ InitThreadsIdle
    /\ cmd \in SessionCommands
    /\ sret = "none"
    /\ wrote = FALSE
    /\ InitOdoIdle

NextSession ==
    \/ (ReceiveCall /\ UNCHANGED nonCodec)
    \/ (ScanStep /\ UNCHANGED nonCodec)
    \/ (ReadStep /\ UNCHANGED nonCodec)
    \/ (ReadError /\ UNCHANGED nonCodec)
    \/ (CloseConnection /\ UNCHANGED nonClose)
    \/ SendMotorCommand
    \/ (DeviceWhole /\ UNCHANGED nonCodec)

SpecSession == InitSession /\ [][NextSession]_vars

----------------------------------------------------------------------------
(* MRF_Odometry: update_odometry, set_position, reset_odometry.             *)
(* The model follows the robot where the kinematics are exact in integers:  *)
(* straight runs along a heading that is a multiple of pi / 2, and turns on *)
(* the spot (distance_center = 0, so radius = 0 and x, y stay).             *)

\* last clock value
MaxTime == 7

\* the deltas, heading pairs whose pose change is an integer
Exact(delta_left, delta_right, theta) ==
    \/ delta_left + delta_right = 0
    \/ (delta_left = delta_right /\ theta % (PI \div 2) = 0)

\* a test that only refuses a call at the very time of the last one
TooSoonOnlyAtOnce(dt) == dt < 1

\* update_odometry: if dt < 0.001: return False
TooSoon(dt) == dt < MIN_DT

\* update_odometry(left, right)
UpdateOdometry(left, right) ==
    LET dt          == now - prev_timestamp
        delta_left  == WrapDelta(left - prev_encoder_left)
        delta_right == WrapDelta(right - prev_encoder_right)
        center2     == delta_left + delta_right
        delta_theta == delta_right - delta_left
        delta_x     == IF center2 = 0 \/ delta_theta # 0 THEN 0
                       ELSE center2 * CosQ(position.theta)
        delta_y     == IF center2 = 0 \/ delta_theta # 0 THEN 0
                       ELSE center2 * SinQ(position.theta)
        pos         == [x |-> position.x + delta_x,
                        y |-> position.y + delta_y,
                        theta |-> normalize_angle(position.theta + delta_theta),
                        timestamp |-> now]
    IN  /\ Exact(delta_left, delta_right, position.theta)
        /\ earg' = [left |-> left, right |-> right]
        /\ ncalls' = IF ncalls < 2 THEN ncalls + 1 ELSE 2
        /\ IF TooSoon(dt)
           THEN /\ oret' = "False"
                /\ UNCHANGED <<position, velocity, prev_encoder_left,
                               prev_encoder_right, prev_timestamp, path_history,
                               total_distance, total_rotation, base, recorded>>
           ELSE /\ position' = pos
                /\ velocity' = [linear      |-> Frac(center2, dt),
                                angular     |-> Frac(delta_theta, dt),
                                left_wheel  |-> Frac(2 * delta_left, dt),
                                right_wheel |-> Frac(2 * delta_right, dt)]
                /\ total_distance' = total_distance + Abs(center2)
                /\ total_rotation' = total_rotation + Abs(delta_theta)
                /\ path_history' = record_position(path_history, pos)
                /\ recorded' = Append(recorded, pos)
                /\ prev_encoder_left' = left
                /\ prev_encoder_right' = right
                /\ prev_timestamp' = now
                /\ base' = [left |-> left, right |-> right]
                /\ oret' = "True"
        /\ UNCHANGED <<now, parg>>

\* set_position(parg.x, parg.y, parg.theta)
SetPosition ==
    /\ position' = [x |-> parg.x, y |-> parg.y,
                    theta |-> normalize_angle(parg.theta), timestamp |-> now]
    /\ UNCHANGED <<velocity, prev_encoder_left, prev_encoder_right,
                   prev_timestamp, path_history, total_distance, total_rotation,
                   now, earg, parg, oret, ncalls, base, recorded>>

\* a reset that also takes the encoder baseline back to 0
ResetOdometryRebased ==
    /\ position' = ZeroPosition
    /\ velocity' = ZeroVelocity
    /\ path_history' = <<>>
    /\ total_distance' = 0
    /\ total_rotation' = 0
    /\ prev_timestamp' = now
    /\ recorded' = <<>>
    /\ prev_encoder_left' = 0
    /\ prev_encoder_right' = 0
    /\ UNCHANGED <<now, earg, parg, oret, ncalls, base>>

\* reset_odometry()
ResetOdometry ==
    /\ position' = ZeroPosition
    /\ velocity' = ZeroVelocity
    /\ path_history' = <<>>
    /\ total_distance' = 0
    /\ total_rotation' = 0
    /\ prev_timestamp' = now
    /\ recorded' = <<>>
    /\ UNCHANGED <<prev_encoder_left, prev_encoder_right, now, earg, parg,
                   oret, ncalls, base>>

\* half a millisecond passes
Tick ==
    /\ now < MaxTime
    /\ now' = now + 1
    /\ UNCHANGED <<position, velocity, prev_encoder_left, prev_encoder_right,
                   prev_timestamp, path_history, total_distance, total_rotation,
                   earg, parg, oret, ncalls, base, recorded>>

\* what the odometry leaves alone
nonOdo == <<codecVars, threadVars, motorVars>>

\* wheel motion between two readings: <<left pulses, right pulses>>
Moves == {<<1000, 1000>>, <<-36, -36>>, <<46, 46>>,
          <<-512, 512>>, <<1024, -1024>>, <<-1024, 1024>>}

\* the readings after motion m from the last accepted readings
UpdateMove ==
    \E m \in Moves :
        UpdateOdometry((prev_encoder_left + m[1]) % ENCODER_WRAP,
                       (prev_encoder_right + m[2]) % ENCODER_WRAP)

\* poses the caller sets: heading -pi, heading 3 pi
PoseArgs == {[x |-> 2000, y |-> 0, theta |-> -PI],
             [x |-> 0, y |-> -72, theta |-> 3 * PI]}

\* the driver is not used
InitDriverIdle ==
    /\ InitCodec
    /\ variant = 4
    /\ ~connected
    /\ InitThreadsIdle
    /\ InitMotorIdle

InitOdo ==
    /\ InitDriverIdle
    /\ InitOdometry
    /\ earg = [left |-> 0, right |-> 0]
    /\ parg \in PoseArgs

NextOdo ==
    \/ (UpdateMove /\ UNCHANGED nonOdo)
    \/ (SetPosition /\ UNCHANGED nonOdo)
    \/ (ResetOdometry /\ UNCHANGED nonOdo)
    \/ (Tick /\ UNCHANGED nonOdo)

SpecOdo == InitOdo /\ [][NextOdo]_vars

----------------------------------------------------------------------------
(* One update_odometry call per pair of previous and current readings, both *)
(* wheels alike, on an integrator at the origin with heading 0              *)

\* readings around 0, the half range and the wrap, and every 4096 between
EncoderSamples ==
    {0, 1, 10, 46, 32767, 32768, 32769, 65500, 65534, 65535}
    \cup {k * 4096 : k \in 1..15}

\* update_odometry(earg.left, earg.right)
UpdateArg == UpdateOdometry(earg.left, earg.right)

\* the integrator after update_odometry(p, p) and reset_odometry()
InitWrap ==
    /\ InitDriverIdle
    /\ position = ZeroPosition
    /\ velocity = ZeroVelocity
    /\ prev_encoder_left \in EncoderSamples
    /\ prev_encoder_right = prev_encoder_left
    /\ now = 1
    /\ prev_timestamp = 1
    /\ path_history = <<>>
    /\ total_distance = 0
    /\ total_rotation = 0
    /\ oret = "True"
    /\ ncalls = 1
    /\ base = [left |-> prev_encoder_left, right |-> prev_encoder_right]
    /\ recorded = <<>>
    /\ earg \in {[left |-> c, right |-> c] : c \in EncoderSamples}
    /\ parg = [x |-> 0, y |-> 0, theta |-> 0]

NextWrap ==
    \/ (UpdateArg /\ UNCHANGED nonOdo)
    \/ (Tick /\ UNCHANGED nonOdo)

SpecWrap == InitWrap /\ [][NextWrap]_vars

----------------------------------------------------------------------------
(* One set_position call per heading argument *)

\* largest |theta| passed, in units of pi / 2048: a little over five pi
MaxTheta == 10300

InitNormalize ==
    /\ InitDriverIdle
    /\ InitOdometry
    /\ earg = [left |-> 0, right |-> 0]
    /\ parg \in {[x |-> 0, y |-> 0, theta |-> a] : a \in -MaxTheta..MaxTheta}

NextNormalize == SetPosition /\ UNCHANGED nonOdo

SpecNormalize == InitNormalize /\ [][NextNormalize]_vars

----------------------------------------------------------------------------
(* Variants 03 and 04 reading one 23-byte buffer *)

\* 16-bit words around the sign boundary and the byte boundary
DecodeWords == {0, 1, 255, 256, 32767, 32768, 32769, 65535}

\* bytes 0, 1 and 22 of a buffer: a frame's header, length and some checksum,
\* or anything else
DecodeEdges == {<<HEADER_BYTE, 21, 0>>, <<0, 7, 255>>}

\* a 23-byte buffer with word w at field i and byte fill elsewhere
DecodeBuffer(i, w, fill, edge) ==
    [j \in 1..FRAME_LEN |->
        IF j <= 2 THEN edge[j]
        ELSE IF j = FRAME_LEN THEN edge[3]
        ELSE IF j = 2 * i + 1 THEN w \div 256
        ELSE IF j = 2 * i + 2 THEN w % 256
        ELSE fill]

DecodeBuffers ==
    {DecodeBuffer(i, w, fill, edge) :
        i \in 1..NFIELDS, w \in DecodeWords, fill \in {0, 255}, edge \in DecodeEdges}

InitDecode ==
    /\ variant \in {3, 4}
    /\ connected = TRUE
    /\ is_open = TRUE
    /\ fields = ZeroFields
    /\ rx \in {Tagged(b) : b \in DecodeBuffers}
    /\ pending = <<>>
    /\ framesSent = 0
    /\ pc = "idle"
    /\ ret = FALSE
    /\ buf = <<>>
    /\ hdr = -2
    /\ calls = "none"
    /\ how = "none"
    /\ expect = NoFrame
    /\ InitThreadsIdle
    /\ InitMotorIdle
    /\ InitOdoIdle

NextDecode ==
    \/ (ReceiveCall /\ UNCHANGED nonCodec)
    \/ (ReadStep /\ UNCHANGED nonCodec)

SpecDecode == InitDecode /\ [][NextDecode]_vars

----------------------------------------------------------------------------
(* The sensor frame as documented: six signed then four unsigned 16-bit     *)
(* words, or ten signed words in variant 01's format string                 *)

TwosComplement16(u) == ((u + 32768) % 65536) - 32768

\* word i of payload p: big-endian in variant 01, little-endian in variant 02
PayloadWord(v, p, i) ==
    IF v = 1 THEN 256 * p[2 * i - 1] + p[2 * i]
    ELSE 256 * p[2 * i] + p[2 * i - 1]

\* struct format ">hhhhhhhhhh" (variant 01) and "<6h4H" (variant 02)
StructUnpack(v, p) ==
    [i \in 1..NFIELDS |->
        IF v = 1 \/ i <= 6 THEN TwosComplement16(PayloadWord(v, p, i))
        ELSE PayloadWord(v, p, i)]

Returned == pc = "done"

----------------------------------------------------------------------------
(* Claims *)

\* C1: in variant 03, a transport read by the sensor flow and a transport
\* write by the motor flow are never in progress together, and each is made
\* while its flow holds serial_mutex.
C1_ReadWriteExclusive ==
    /\ ~(th.sensor = "read" /\ th.motor = "write")
    /\ th.sensor = "read" => serial_mutex = "sensor"
    /\ th.motor = "write" => serial_mutex = "motor"

\* C1 witness: the motor flow waits for serial_mutex while the sensor flow's
\* read is in progress, a packet already written.
C1_Witness ==
    th.sensor = "read" /\ th.motor = "lock" /\ serial_mutex = "sensor" /\ tx # <<>>

\* C2: in variant 03, a flow that has read the ten sensor fields through the
\* accessors holds ten values that all come from one decoded frame (or are
\* the ten initial zeroes).
C2_AccessorsSeeOneFrame ==
    Len(obs) = NFIELDS => obs \in decoded \cup {ZeroFields}

\* C3: in every variant, when the block read after the header returns fewer
\* bytes than the frame size, receive_sensor_data returns False and leaves
\* the ten sensor fields unchanged.
C3_ShortReadFails ==
    [][(pc = "read" /\ pc' = "done" /\ how' = "read"
            /\ Len(buf') < ReadLen(variant))
        => (ret' = FALSE /\ fields' = fields)]_vars

\* C4: in variant 03 a frame whose checksum byte disagrees with the checksum
\* of the 22 bytes before it is refused: a call that returns True has read a
\* frame whose last byte is that checksum (the XOR, or the sum modulo 256).
C4_ChecksumMismatchRefused ==
    (variant = 3 /\ Returned /\ ret)
        => \/ buf[FRAME_LEN].b = XorAll(Bytes(SubSeq(buf, 1, FRAME_LEN - 1)))
           \/ buf[FRAME_LEN].b = SumAll(Bytes(SubSeq(buf, 1, FRAME_LEN - 1)))

\* C5: in variants 03 and 04 a call returns True only if the first of the 23
\* bytes it decoded equals HEADER_BYTE.
C5_AcceptedFrameStartsWithHeader ==
    (variant \in {3, 4} /\ Returned /\ ret) => buf[1].b = HEADER_BYTE

C7_NoFalseResync ==
    (variant \in Scanning /\ Returned /\ ret /\ calls = "failed") => hdr = 0

\* C8: in every variant a call that returns False leaves all ten fields as
\* they were, and a call that returns True has replaced them from one
\* complete frame.
C8_FalseKeepsTrueReplaces ==
    [][Driver =>
        IF pc' = "done"
        THEN IF ret' THEN Len(buf') = ReadLen(variant) ELSE fields' = fields
        ELSE fields' = fields]_vars

\* C9: in variants 01 and 02 every call returns: a call that is scanning for
\* the header eventually returns, whatever the stream delivers.
C9_ScanReturns ==
    (variant \in Scanning /\ pc = "scan") ~> (pc = "done")

\* C10: after every successful call, in every variant, the six IMU fields
\* are in -32768..32767 and the four encoder fields in 0..65535.
C10_FieldRanges ==
    (Returned /\ ret)
        => /\ \A i \in 1..6 : fields[i] \in -32768..32767
           /\ \A i \in 7..NFIELDS : fields[i] \in 0..65535

----------------------------------------------------------------------------
(* Motor packets as the receiver reads them *)

\* a byte read as a signed 8-bit value
SignedByte(b) == ((b + 128) % 256) - 128

\* the signed 16-bit little-endian word at bytes i, i+1 of packet p
Unpack16LE(p, i) == TwosComplement16(p[i] + 256 * p[i + 1])

IsByteSeq(p) == \A i \in 1..Len(p) : p[i] \in 0..255

\* C11: whatever integers are passed, a call on a connected instance that
\* wrote its packet wrote a packet of the clamped arguments, and the values
\* on the wire lie in the variant's range: variant 02 speed -255..255 and
\* angle -180..180, variant 03 speed 0..255 and angle -127..127, variant 04
\* both wheel speeds -100..100.
C11_ClampedOnTheWire ==
    (variant \in MotorVariants /\ sret = "True") =>
        /\ tx \in MotorPackets(variant, ClampSpeed(variant, cmd.speed),
                                ClampAngle(variant, cmd.angle))
        /\ IsByteSeq(tx)
        /\ CASE variant = 2 -> /\ Unpack16LE(tx, 2) \in -255..255
                               /\ Unpack16LE(tx, 4) \in -180..180
             [] variant = 3 -> /\ tx[3] \in 0..255
                               /\ SignedByte(tx[4]) \in -127..127
             [] variant = 4 -> /\ Unpack16LE(tx, 2) \in -100..100
                               /\ Unpack16LE(tx, 4) \in -100..100

\* an out-of-range command was accepted and written clamped
C11_Witness ==
    /\ variant = 2
    /\ cmd.speed > 255
    /\ cmd.angle < -180
    /\ sret = "True"
    /\ Unpack16LE(tx, 2) = 255
    /\ Unpack16LE(tx, 4) = -180

\* C12: every packet variant 03 writes is the five bytes
\* [0xAA, 3, speed, angle, checksum]: the checksum is the XOR of the four
\* bytes before it, the speed byte is the clamped speed and the angle byte
\* read as a signed byte is the clamped angle.
C12_Packet03WellFormed ==
    (variant = 3 /\ sret = "True") =>
        /\ Len(tx) = 5
        /\ IsByteSeq(tx)
        /\ tx[1] = 170
        /\ tx[2] = 3
        /\ tx[3] = (IF cmd.speed < 0 THEN 0 ELSE IF cmd.speed > 255 THEN 255 ELSE cmd.speed)
        /\ SignedByte(tx[4]) =
              (IF cmd.angle < -127 THEN -127 ELSE IF cmd.angle > 127 THEN 127 ELSE cmd.angle)
        /\ tx[5] = XorAll(SubSeq(tx, 1, 4))
        /\ XorAll(tx) = 0

\* a negative angle went out as its two's-complement byte
C12_Witness ==
    /\ variant = 3
    /\ sret = "True"
    /\ cmd.angle = -29
    /\ cmd.speed = 90
    /\ tx[4] = 227

\* C13: once the transport is closed it stays closed and is_connected() stays
\* False; every later receive_sensor_data and send_motor_command returns
\* False with no transport read or write, and the sensor fields, the unread
\* input and the written output stay as they were.
C13_ClosedIsFatal ==
    [][~is_open =>
          /\ ~is_open'
          /\ ~IsConnected'
          /\ fields' = fields
          /\ tx' = tx
          /\ Len(rx') >= Len(rx) /\ SubSeq(rx', 1, Len(rx)) = rx
          /\ pc' \notin {"scan", "read"}
          /\ (ReceiveCall => (pc' = "done" /\ ret' = FALSE /\ how' = "closed"))
          /\ (SendMotorCommand => (sret' = "False" /\ wrote' = FALSE))]_vars

\* after a decoded frame and a written packet the transport was closed, and
\* a receive call and a send call have both returned False since
C13_Witness ==
    /\ ~is_open
    /\ tx # <<>>
    /\ fields # ZeroFields
    /\ sret = "False"
    /\ wrote = FALSE
    /\ pc = "done"
    /\ how = "closed"
    /\ ret = FALSE

\* C14: once stop_threads() has cleared the running flag it is never set
\* again, neither worker loop starts another iteration (no loop check leads
\* into a receive_sensor_data or send_motor_command call), and both worker
\* loops end.
C14_StopEndsWorkers ==
    /\ [][~running =>
            /\ ~running'
            /\ (th'.sensor = "call" => th.sensor = "call")
            /\ (th'.motor = "call" => th.motor = "call")]_vars
    /\ (~running ~> (th.sensor = "exit" /\ th.motor = "exit"))

\* both workers did their work, the flag was cleared and both loops ended
C14_Witness ==
    /\ ~running
    /\ th.sensor = "exit"
    /\ th.motor = "exit"
    /\ tx # <<>>
    /\ fields # ZeroFields

----------------------------------------------------------------------------
(* Odometry *)

\* C15: the first update_odometry call on a new integrator only records its
\* readings as the encoder baseline: x, y, theta, total_distance and
\* total_rotation stay as they were, whatever the first readings are.
C15_FirstUpdateOnlyBaseline ==
    [][(ncalls = 0 /\ ncalls' = 1) =>
          /\ position'.x = position.x
          /\ position'.y = position.y
          /\ position'.theta = position.theta
          /\ total_distance' = total_distance
          /\ total_rotation' = total_rotation
          /\ prev_encoder_left' = earg'.left
          /\ prev_encoder_right' = earg'.right]_vars

\* C16: an update_odometry call less than 1 ms after the last accepted one
\* returns False and changes neither pose, velocity, totals, path history
\* nor the stored readings and timestamp; an accepted call integrates the
\* whole delta from the readings of the last accepted call.
C16_EarlyUpdateIsNoOp ==
    [][UpdateMove =>
          IF now - prev_timestamp < 2
          THEN /\ oret' = "False"
               /\ UNCHANGED <<position, velocity, total_distance, total_rotation,
                              path_history, prev_encoder_left,
                              prev_encoder_right, prev_timestamp>>
          ELSE LET dl == WrapDelta(earg'.left - base.left)
                   dr == WrapDelta(earg'.right - base.right)
               IN  /\ oret' = "True"
                   /\ total_distance' = total_distance + Abs(dl + dr)
                   /\ total_rotation' = total_rotation + Abs(dr - dl)
                   /\ position'.theta =
                         normalize_angle(position.theta + dr - dl)]_vars

\* two calls by time 3 (1 ms after construction), the later one accepted:
\* the earlier one was refused and left the baseline at 0
C16_Witness ==
    /\ now = 3
    /\ prev_timestamp = 3
    /\ ncalls = 2
    /\ oret = "True"
    /\ Len(recorded) = 1
    /\ position.x = 2000
    /\ total_distance = 2000

\* C17: for previous and current readings in 0..65535 the corrected delta
\* of an accepted update (read off the straight run along heading 0, which
\* advances x by two length units per pulse) is congruent to
\* current - previous modulo 65536 and at most 32768 in magnitude;
\* previous 65500, current 10 gives +46.
C17_WrapCorrected ==
    [][(oret' = "True" /\ prev_timestamp' # prev_timestamp
            /\ position.theta = 0 /\ earg'.left = earg'.right
            /\ prev_encoder_left = prev_encoder_right) =>
          LET d == (position'.x - position.x) \div 2
          IN  /\ position'.x - position.x = 2 * d
              /\ (d - (earg'.left - prev_encoder_left)) % 65536 = 0
              /\ d \in -32768..32768
              /\ velocity'.left_wheel[1] * (now - prev_timestamp)
                     = 2 * d * velocity'.left_wheel[2]
              /\ (prev_encoder_left = 65500 /\ earg'.left = 10) => d = 46]_vars

\* the reading wrapped from 65500 to 10 and the robot advanced 46 pulses
C17_Witness ==
    /\ earg = [left |-> 10, right |-> 10]
    /\ prev_encoder_left = 10
    /\ oret = "True"
    /\ position.x = 92
    /\ total_distance = 92

\* C18: the stored heading lies in (-pi, pi]: never -pi, never outside.
C18_ThetaHalfOpen ==
    position.theta > -2048 /\ position.theta <= 2048

\* C19: _normalize_angle ends for angles any number of turns outside the
\* range, its result differs from the angle by a multiple of 2 pi and is a
\* fixed point of _normalize_angle.
C19_NormalizeIdempotent ==
    (position.timestamp # 0) =>
        /\ (position.theta - parg.theta) % 4096 = 0
        /\ position.theta \in -2048..2048
        /\ normalize_angle(position.theta) = position.theta

\* a heading three and a half pi and one unit came back as -1023 units
C19_Witness ==
    /\ parg.theta = 7169
    /\ position.timestamp # 0
    /\ position.theta = -1023

\* the last n poses of history h
LastOf(h, n) == IF Len(h) <= n THEN h ELSE SubSeq(h, Len(h) - n + 1, Len(h))

\* C20: the path history never holds more than max_path_length poses and is
\* the window of the most recent poses recorded since the last reset, in
\* order: beyond capacity the oldest pose is the one dropped.
C20_PathIsFifoWindow ==
    /\ Len(path_history) <= max_path_length
    /\ path_history = LastOf(recorded, max_path_length)

\* one pose more than the capacity was recorded and the oldest one is gone
C20_Witness ==
    /\ Len(recorded) = max_path_length + 1
    /\ Len(path_history) = max_path_length
    /\ path_history[1].timestamp = recorded[2].timestamp
    /\ \A i \in 1..Len(path_history) :
          path_history[i].timestamp # recorded[1].timestamp

\* C21: total_distance and total_rotation are never negative and no step but
\* reset_odometry lowers them; set_position leaves them alone, and an
\* accepted update adds the magnitudes of the distance and of the turn, for
\* backward motion as for forward motion.
C21_TotalsMonotone ==
    [][/\ total_distance' >= 0
       /\ total_rotation' >= 0
       /\ ~ResetOdometry =>
             (total_distance' >= total_distance /\ total_rotation' >= total_rotation)
       /\ SetPosition =>
             (total_distance' = total_distance /\ total_rotation' = total_rotation)
       /\ (UpdateMove /\ oret' = "True") =>
             LET raw_l == earg'.left - prev_encoder_left
                 raw_r == earg'.right - prev_encoder_right
                 dl == IF raw_l > 32768 THEN raw_l - 65536
                       ELSE IF raw_l < -32768 THEN raw_l + 65536 ELSE raw_l
                 dr == IF raw_r > 32768 THEN raw_r - 65536
                       ELSE IF raw_r < -32768 THEN raw_r + 65536 ELSE raw_r
                 dc == dl + dr
                 dh == dr - dl
             IN  /\ total_distance' - total_distance = (IF dc < 0 THEN -dc ELSE dc)
                 /\ total_rotation' - total_rotation = (IF dh < 0 THEN -dh ELSE dh)]_vars

\* the robot backed up 36 pulses from the origin and the total grew by them
C21_Witness ==
    /\ position.x = -72
    /\ position.theta = 0
    /\ total_distance = 72
    /\ oret = "True"
    /\ Len(recorded) = 1

\* C22: whatever the state, a reset_odometry step leaves the pose at
\* (0, 0, 0), the four velocity components at 0, the path history empty and
\* both totals at 0, all in the same step.
C22_ResetClearsAll ==
    [][ResetOdometry =>
          /\ position'.x = 0 /\ position'.y = 0 /\ position'.theta = 0
          /\ velocity'.linear[1] = 0 /\ velocity'.angular[1] = 0
          /\ velocity'.left_wheel[1] = 0 /\ velocity'.right_wheel[1] = 0
          /\ Len(path_history') = 0
          /\ total_distance' = 0 /\ total_rotation' = 0]_vars

\* a reset after the robot had moved: the baseline shows accepted updates,
\* everything else is cleared
C22_Witness ==
    /\ base.left # 0
    /\ ncalls = 2
    /\ position.x = 0 /\ position.y = 0 /\ position.theta = 0
    /\ velocity.linear[1] = 0 /\ velocity.left_wheel[1] = 0
    /\ path_history = <<>>
    /\ total_distance = 0 /\ total_rotation = 0
    /\ prev_timestamp = now
    /\ now > 4

\* the corrected difference of a 16-bit counter reading and the last one
CorrectedDelta(reading, last) ==
    LET raw == reading - last
    IN  IF raw > 32768 THEN raw - 65536
        ELSE IF raw < -32768 THEN raw + 65536 ELSE raw

\* C23: an accepted update whose corrected left and right deltas are equal
\* leaves theta and total_rotation unchanged and moves the pose along the
\* heading by delta pulses (2 * delta length units, the unit being half a
\* distance_per_pulse): with theta = 0, x advances by that much and y is
\* unchanged.
C23_StraightLine ==
    [][(/\ UpdateMove
        /\ oret' = "True"
        /\ CorrectedDelta(earg'.left, prev_encoder_left)
             = CorrectedDelta(earg'.right, prev_encoder_right)) =>
          LET delta == CorrectedDelta(earg'.left, prev_encoder_left)
              heading == position.theta
          IN  /\ position'.theta = heading
              /\ total_rotation' = total_rotation
              /\ velocity'.angular[1] = 0
              /\ heading = 0 =>
                    (position'.x = position.x + 2 * delta /\ position'.y = position.y)
              /\ heading = 1024 =>
                    (position'.x = position.x /\ position'.y = position.y + 2 * delta)
              /\ heading \in {2048, -2048} =>
                    (position'.x = position.x - 2 * delta /\ position'.y = position.y)
              /\ heading = -1024 =>
                    (position'.x = position.x /\ position'.y = position.y - 2 * delta)]_vars

\* 1000 pulses on both wheels from the origin with heading 0
C23_Witness ==
    /\ earg = [left |-> 1000, right |-> 1000]
    /\ oret = "True"
    /\ position.x = 2000
    /\ position.y = 0
    /\ position.theta = 0
    /\ total_distance = 2000
    /\ total_rotation = 0
    /\ Len(recorded) = 1

\* C27: reset_odometry and set_position leave prev_encoder_left and
\* prev_encoder_right as they are, so the first accepted update after a
\* reset integrates exactly the ticks counted since the readings of the last
\* accepted update (base), not the whole counter value.
C27_ResetKeepsBaseline ==
    [][/\ (ResetOdometry \/ SetPosition) =>
             /\ prev_encoder_left' = prev_encoder_left
             /\ prev_encoder_right' = prev_encoder_right
             /\ prev_encoder_left' = base.left
             /\ prev_encoder_right' = base.right
       /\ (UpdateMove /\ oret' = "True" /\ recorded = <<>>) =>
             LET dl == CorrectedDelta(earg'.left, base.left)
                 dr == CorrectedDelta(earg'.right, base.right)
             IN  /\ total_distance' = (IF dl + dr < 0 THEN -(dl + dr) ELSE dl + dr)
                 /\ total_rotation' = (IF dr - dl < 0 THEN dl - dr ELSE dr - dl)]_vars

\* 1000 pulses accepted, a reset, then 1000 pulses more: the counters read
\* 2000 and the odometry has integrated 1000
C27_Witness ==
    /\ base = [left |-> 2000, right |-> 2000]
    /\ prev_encoder_left = 2000
    /\ Len(recorded) = 1
    /\ total_distance = 2000
    /\ position.x = 2000
    /\ position.y = 0

\* C28: a pose recorded in the path history keeps its value: no update
\* (accepted or rejected) and no set_position changes an entry; an entry
\* leaves the history only by eviction of the oldest one when an accepted
\* update finds the history full, or by reset_odometry.
C28_RecordedPosesAreSnapshots ==
    [][~ResetOdometry =>
          LET accepted == UpdateMove /\ oret' = "True"
              grown    == IF accepted THEN 1 ELSE 0
              evicted  == Len(path_history) + grown - Len(path_history')
          IN  /\ evicted \in {0, 1}
              /\ evicted = 1 => (accepted /\ Len(path_history) = max_path_length)
              /\ \A i \in (evicted + 1)..Len(path_history) :
                     path_history'[i - evicted] = path_history[i]
              /\ SetPosition => path_history' = path_history]_vars

\* set_position moved the pose after a recording; the recorded pose still
\* shows where the robot was
C28_Witness ==
    /\ Len(path_history) >= 1
    /\ path_history[Len(path_history)].x = 2000
    /\ path_history[Len(path_history)].theta = 0
    /\ position.x = 0
    /\ position.y = -72
    /\ position.theta = 2048
    /\ position.timestamp > path_history[Len(path_history)].timestamp

\* C29: the path history holds min(accepted updates since construction or
\* the last reset, max_path_length) poses; an accepted update appends exactly
\* one pose (evicting the oldest from a full history), a rejected update and
\* set_position append none; the timestamps of consecutive recorded poses
\* strictly increase.
C29_PathCount ==
    /\ [](/\ Len(path_history) =
              (IF Len(recorded) < max_path_length THEN Len(recorded)
               ELSE max_path_length)
          /\ \A i \in 1..(Len(path_history) - 1) :
                 path_history[i].timestamp < path_history[i + 1].timestamp)
    /\ [][/\ (UpdateMove /\ oret' = "True") =>
                /\ Len(recorded') = Len(recorded) + 1
                /\ Len(path_history') =
                      (IF Len(path_history) < max_path_length
                       THEN Len(path_history) + 1 ELSE max_path_length)
                /\ path_history'[Len(path_history')] = position'
          /\ ((UpdateMove /\ oret' = "False") \/ SetPosition) =>
                /\ recorded' = recorded
                /\ path_history' = path_history
          /\ ResetOdometry => (recorded' = <<>> /\ path_history' = <<>>)]_vars

\* three accepted updates since the reset, a rejected one and a set_position
\* after them: the history is full with the last two
C29_Witness ==
    /\ Len(recorded) = 3
    /\ Len(path_history) = 2
    /\ path_history[1].timestamp < path_history[2].timestamp
    /\ oret = "False"
    /\ position # path_history[2]
    /\ position.x = parg.x
    /\ position.y = parg.y

\* C26: on every 23-byte buffer, variant 04's shift-and-subtract decoding and
\* variant 03's '>h' / '>H' decoding give the same ten values (six signed,
\* four unsigned big-endian words of bytes 2..21), and neither depends on
\* bytes 0, 1 and 22.
C26_DecodersAgree ==
    (pc = "done" /\ Len(buf) = 23) =>
        LET d     == Bytes(buf)
            blank == [d EXCEPT ![1] = 0, ![2] = 0, ![23] = 0]
            f3    == parse_sensor_data_03(ZeroFields, d)
            f4    == parse_sensor_data_04(ZeroFields, d)
        IN  /\ ret
            /\ f3 = f4
            /\ fields = (IF variant = 3 THEN f4 ELSE f3)
            /\ \A i \in 1..10 :
                   LET word == 256 * d[2 * i + 1] + d[2 * i + 2]
                   IN  fields[i] = (IF i <= 6 THEN TwosComplement16(word) ELSE word)
            /\ parse_sensor_data_03(ZeroFields, blank) = f3
            /\ parse_sensor_data_04(ZeroFields, blank) = f4

\* variant 04 has decoded 0xFFFF bytes: -1 for an IMU field, 65535 for an
\* encoder, from a buffer that does not start with the header
C26_Witness ==
    /\ variant = 4
    /\ pc = "done"
    /\ ret
    /\ Len(buf) = 23
    /\ buf[1].b = 0
    /\ fields[1] = -1
    /\ fields[7] = 65535

\* C30: in variant 04, a written packet carries the clamped speed on the
\* outer wheel (left when the clamped angle is >= 0, right when it is < 0)
\* and on the inner wheel a value of the same sign as the speed, or 0, no
\* larger in magnitude; angle 0 gives left = right = speed, |angle| = 100
\* gives inner = 0, and the packet stop_motors writes has left = right = 0.
C30_DifferentialMix ==
    /\ []((variant = 4 /\ sret = "True") =>
            LET s     == IF cmd.speed < -100 THEN -100
                         ELSE IF cmd.speed > 100 THEN 100 ELSE cmd.speed
                a     == IF cmd.angle < -100 THEN -100
                         ELSE IF cmd.angle > 100 THEN 100 ELSE cmd.angle
                left  == Unpack16LE(tx, 2)
                right == Unpack16LE(tx, 4)
                outer == IF a >= 0 THEN left ELSE right
                inner == IF a >= 0 THEN right ELSE left
            IN  /\ Len(tx) = 5
                /\ tx[1] = 250
                /\ outer = s
                /\ inner * s >= 0
                /\ (IF inner < 0 THEN -inner ELSE inner) <= (IF s < 0 THEN -s ELSE s)
                /\ a = 0 => (left = s /\ right = s)
                /\ a \in {-100, 100} => inner = 0)
    /\ [][(StopMotors /\ sret' = "True") => tx' = <<250, 0, 0, 0, 0>>]_vars

\* speed -37 with angle 30: the left wheel at -37, the right wheel at
\* int(-25.9) = -25
C30_Witness ==
    /\ variant = 4
    /\ sret = "True"
    /\ cmd = [speed |-> -37, angle |-> 30]
    /\ Unpack16LE(tx, 2) = -37
    /\ Unpack16LE(tx, 4) = -25

\* C24: in variant 03 the step in which a worker performs its serial read
\* or write finds the port open: no worker reaches read() or write() once
\* close_connection has closed the port.
C24_NoUseAfterClose ==
    [][((th.sensor = "read" /\ th'.sensor # "read")
          \/ (th.motor = "write" /\ th'.motor # "write")) => is_open]_vars

\* C25: in variant 03 a worker holds serial_mutex only between the acquire
\* and the end of its read or write: whichever way the call ends (success,
\* short read, exception), the mutex is released, and it is not held while
\* the worker sleeps; so every call that waits for the mutex acquires it and
\* returns.
C25_MutexReleased ==
    /\ [](/\ serial_mutex = "sensor" <=> th.sensor \in {"read", "parse"}
          /\ serial_mutex = "motor" <=> th.motor = "write")
    /\ (th.sensor = "lock") ~> (th.sensor = "sleep")
    /\ (th.motor = "lock") ~> (th.motor = "sleep")

\* the sensor call waits for the mutex while the motor call holds it, after
\* an earlier motor call has written and returned
C25_Witness ==
    /\ th.sensor = "lock"
    /\ th.motor = "write"
    /\ serial_mutex = "motor"
    /\ tx # <<>>
    /\ running

====
